---- MODULE Spec2Model ----
(***************************************************************************)
(* GenialDashboard (src/dashboard_claude.py): the load pipeline            *)
(* load_data -> _clean_data -> _process_data, the five derived views, the  *)
(* ranking query get_top_bottom_sectors and the update_sector_chart        *)
(* callback.                                                               *)
(*                                                                         *)
(* A DataFrame is a record [columns, rows]; every row is a function from   *)
(* the column labels, plus the key "index" holding the row's index label.  *)
(* A missing cell of a label column is NaN.  The numeric columns are       *)
(* always filled (whole millions, so that the division by 1_000_000 is     *)
(* exact as it is in floating point for such values).  The columns         *)
(* VL_COMPRA / VL_VENDA are only renamed by the code and never read; the   *)
(* files enumerated here do not carry them.                                *)
(***************************************************************************)
EXTENDS Integers, Sequences, FiniteSets, TLC

VARIABLES
    file,                  \* newest Brokeragem*.xlsx in Downloads, or NoFile
    data,                  \* self.data
    net_sector_summary,    \* self.net_sector_summary
    total_net_by_type,     \* self.total_net_by_type
    volume_total_by_type,  \* self.volume_total_by_type
    daily_evolution,       \* self.daily_evolution
    evol_sector,           \* self.evol_sector
    pc,                    \* statement load_data is about to execute
    logged,                \* last record written to the logger
    returned,              \* what the call made by the last step returned
    views_at_call          \* history: the five views when load_data was last called

vars == <<file, data, net_sector_summary, total_net_by_type,
          volume_total_by_type, daily_evolution, evol_sector, pc, logged,
          returned, views_at_call>>

views == <<net_sector_summary, total_net_by_type, volume_total_by_type,
           daily_evolution, evol_sector>>

-----------------------------------------------------------------------------
(* Bounds of the enumeration *)

MaxRows == 2    \* rows of a file
MaxN    == 2    \* largest n asked of get_top_bottom_sectors

-----------------------------------------------------------------------------
(* Values *)

None     == [none |-> TRUE]
NoFile   == [nofile |-> TRUE]
NoReturn == [op |-> "none"]
NaN      == "NaN"

Million == 1000000

Min(a, b) == IF a < b THEN a ELSE b
Max(a, b) == IF a > b THEN a ELSE b

\* Python orders str by code point; this is that order on the labels used.
LabelOrder ==
    << "BANK", "ESTRANGEIRO", "FII", "FOREIGNERS", "GENIAL", "IBOV",
       "LOCAL INSTITUCIONAL", "LOCALS", "NaN", "Others", "RETAIL",
       "UNKNOWN_DESK", "X" >>

LabelRank(l) == CHOOSE i \in DOMAIN LabelOrder : LabelOrder[i] = l

\* tuple comparison of the groupby keys (INV TYPE, SECTOR)
KeyBefore(a, b) ==
    \/ LabelRank(a[1]) < LabelRank(b[1])
    \/ a[1] = b[1] /\ LabelRank(a[2]) < LabelRank(b[2])

RECURSIVE SortedKeys(_)
SortedKeys(S) ==
    IF S = {} THEN << >>
    ELSE LET m == CHOOSE x \in S : \A y \in S \ {x} : KeyBefore(x, y)
         IN  <<m>> \o SortedKeys(S \ {m})

RECURSIVE SumCol(_, _)
SumCol(rows, col) ==
    IF rows = << >> THEN 0 ELSE Head(rows)[col] + SumCol(Tail(rows), col)

RowSet(d) == {d.rows[i] : i \in DOMAIN d.rows}

-----------------------------------------------------------------------------
(* load_data: reading the file *)

RawColumns ==
    {"DT_NEGOCIO", "CD_SETOR", "CD_SUBSETOR", "CD_SEGMENTO", "CONTA",
     "VL_NET", "VL_TOTAL"}

\* pd.read_excel: the sheet's rows under a RangeIndex
read_excel(f) ==
    [columns |-> f.columns,
     rows    |-> [i \in DOMAIN f.rows |->
                    [c \in f.columns \cup {"index"} |->
                        IF c = "index" THEN i - 1 ELSE f.rows[i][c]]]]

\* what the except clause of load_data hands back for exception e
ExceptReturn(e) == FALSE

-----------------------------------------------------------------------------
(* _clean_data *)

column_mapping ==
    [c \in {"CD_SETOR", "CD_SUBSETOR", "CD_SEGMENTO", "CONTA", "VL_COMPRA",
            "VL_VENDA", "VL_NET", "VL_TOTAL"} |->
        CASE c = "CD_SETOR"    -> "SECTOR"
          [] c = "CD_SUBSETOR" -> "SUB-SECTOR"
          [] c = "CD_SEGMENTO" -> "SEGMENT"
          [] c = "CONTA"       -> "INV TYPE"
          [] c = "VL_COMPRA"   -> "BUY R$"
          [] c = "VL_VENDA"    -> "SELL R$"
          [] c = "VL_NET"      -> "NET R$"
          [] c = "VL_TOTAL"    -> "TOTAL"]

sector_mapping == [s \in {"FII", "IBOV"} |-> "Others"]

investor_mapping ==
    [c \in {"ESTRANGEIRO", "LOCAL INSTITUCIONAL", "GENIAL"} |->
        CASE c = "ESTRANGEIRO"         -> "FOREIGNERS"
          [] c = "LOCAL INSTITUCIONAL" -> "LOCALS"
          [] c = "GENIAL"              -> "RETAIL"]

\* variant: the fill sentinel counted as an investor type
valid_investors_with_sentinel == {"LOCALS", "FOREIGNERS", "RETAIL", "Others"}

valid_investors == {"LOCALS", "FOREIGNERS", "RETAIL"}

\* columns whose cells are labels (everything but the amounts and the date)
LabelColumns ==
    {"CD_SETOR", "CD_SUBSETOR", "CD_SEGMENTO", "CONTA",
     "SECTOR", "SUB-SECTOR", "SEGMENT", "INV TYPE"}

\* self.data.index = pd.to_datetime(self.data['DT_NEGOCIO']); drop the column
SetIndex(d) ==
    [columns |-> d.columns \ {"DT_NEGOCIO"},
     rows    |-> [i \in DOMAIN d.rows |->
                    [c \in (d.columns \ {"DT_NEGOCIO"}) \cup {"index"} |->
                        IF c = "index" THEN d.rows[i]["DT_NEGOCIO"]
                        ELSE d.rows[i][c]]]]

NewName(c) == IF c \in DOMAIN column_mapping THEN column_mapping[c] ELSE c
OldName(d, n) == CHOOSE c \in d.columns \cup {"index"} : NewName(c) = n

\* self.data.rename(columns=column_mapping, inplace=True)
Rename(d) ==
    [columns |-> {NewName(c) : c \in d.columns},
     rows    |-> [i \in DOMAIN d.rows |->
                    [n \in {NewName(c) : c \in d.columns \cup {"index"}} |->
                        d.rows[i][OldName(d, n)]]]]

\* self.data.fillna("Others", inplace=True)
FillNa(d) ==
    [d EXCEPT !.rows =
        [i \in DOMAIN d.rows |->
            [c \in DOMAIN d.rows[i] |->
                IF c \in LabelColumns /\ d.rows[i][c] = NaN
                THEN "Others" ELSE d.rows[i][c]]]]

\* self.data[col] = self.data[col].replace(mapping)
Replace(d, col, mapping) ==
    [d EXCEPT !.rows =
        [i \in DOMAIN d.rows |->
            [d.rows[i] EXCEPT ![col] =
                IF @ \in DOMAIN mapping THEN mapping[@] ELSE @]]]

IsValidInvestor(r) == r["INV TYPE"] \in valid_investors

\* variant: the filtered frame is not assigned back to self.data
FilterValid_unassigned(d) == d

\* self.data = self.data[self.data['INV TYPE'].isin(valid_investors)]
FilterValid(d) == [d EXCEPT !.rows = SelectSeq(d.rows, IsValidInvestor)]

\* _clean_data as a whole: the exception it ends with ("none" when it
\* completes) and self.data as it leaves it.
CleanResult(d) ==
    IF "DT_NEGOCIO" \notin d.columns
    THEN [exc |-> "KeyError", data |-> d]
    ELSE LET filled == FillNa(Rename(SetIndex(d))) IN
         IF "SECTOR" \notin filled.columns
         THEN [exc |-> "KeyError", data |-> filled]
         ELSE LET sect == Replace(filled, "SECTOR", sector_mapping) IN
              IF "INV TYPE" \notin sect.columns
              THEN [exc |-> "KeyError", data |-> sect]
              ELSE [exc  |-> "none",
                    data |-> FilterValid(
                               Replace(sect, "INV TYPE", investor_mapping))]

-----------------------------------------------------------------------------
(* _process_data *)

Matching(d, col, v) == SelectSeq(d.rows, LAMBDA r : r[col] = v)

SectorKey(r) == <<r["INV TYPE"], r["SECTOR"]>>

\* groupby(['INV TYPE','SECTOR'])['NET R$'].sum().reset_index()
GroupSectorNet(d) ==
    LET keys == SortedKeys({SectorKey(r) : r \in RowSet(d)}) IN
    [rows |-> [i \in DOMAIN keys |->
        [inv    |-> keys[i][1],
         sector |-> keys[i][2],
         net    |-> SumCol(SelectSeq(d.rows,
                            LAMBDA r : SectorKey(r) = keys[i]), "NET R$")]]]

\* variant: the summary is left in currency units
ScaleSummary_skipped(s) == s

\* self.net_sector_summary['NET R$'] /= 1_000_000
ScaleSummary(s) ==
    [rows |-> [i \in DOMAIN s.rows |->
                 [s.rows[i] EXCEPT !.net = @ \div Million]]]

\* groupby('INV TYPE')[col].sum() / 1_000_000
GroupByType(d, col) ==
    LET types == {r["INV TYPE"] : r \in RowSet(d)} IN
    [index  |-> types,
     values |-> [t \in types |->
                   SumCol(Matching(d, "INV TYPE", t), col) \div Million]]

\* the column label of row r under pivot_table(columns=cols)
ColumnKey(r, cols) ==
    IF Len(cols) = 1 THEN r[cols[1]] ELSE <<r[cols[1]], r[cols[2]]>>

\* pivot_table(values='NET R$', index=self.data.index, columns=cols, aggfunc='sum'):
\* a cell for every (index, column) group with a row; all other cells NaN
\* (no entry in .values).
PivotNet(d, cols) ==
    LET cells == {<<r["index"], ColumnKey(r, cols)>> : r \in RowSet(d)} IN
    [index   |-> {r["index"] : r \in RowSet(d)},
     columns |-> {ColumnKey(r, cols) : r \in RowSet(d)},
     values  |-> [k \in cells |->
                    SumCol(SelectSeq(d.rows,
                             LAMBDA r : <<r["index"], ColumnKey(r, cols)>> = k),
                           "NET R$")]]

\* variant: the pivot is left with its NaN cells
FillNaZero_skipped(p) == p

\* .fillna(0, inplace=True)
FillNaZero(p) ==
    [p EXCEPT !.values =
        [k \in p.index \X p.columns |->
            IF k \in DOMAIN p.values THEN p.values[k] ELSE 0]]

\* /= 1_000_000
ScalePivot(p) ==
    [p EXCEPT !.values = [k \in DOMAIN p.values |-> p.values[k] \div Million]]

-----------------------------------------------------------------------------
(* get_top_bottom_sectors *)

\* sort_values(by='NET R$', ascending=False) with the default kind
\* ('quicksort', not stable): every arrangement of the rows in which the net
\* amounts do not increase; rows of equal amount come in an order the sort
\* does not promise.
SortValuesDescending(rows) ==
    {[i \in DOMAIN rows |-> rows[p[i]]] : p \in
        {q \in Permutations(1..Len(rows)) :
            \A i \in 1..(Len(rows) - 1) : rows[q[i]].net >= rows[q[i + 1]].net}}

\* variant: the tail starts one row early
tail_one_more(s, n) == SubSeq(s, Max(1, Len(s) - n), Len(s))

\* DataFrame.head(n), DataFrame.tail(n) for n > 0
head(s, n) == SubSeq(s, 1, Min(n, Len(s)))
tail(s, n) == SubSeq(s, Max(1, Len(s) - n + 1), Len(s))

FilterType(s, inv_type) == SelectSeq(s.rows, LAMBDA r : r.inv = inv_type)

-----------------------------------------------------------------------------
(* update_sector_chart *)

\* the traces of the figure: one per investor type that has a column for the
\* selected sector; y holds the non-NaN cells of that column
SectorTraces(e, selected_sector) ==
    {[name |-> c[1],
      x    |-> e.index,
      y    |-> [t \in {t \in e.index : <<t, c>> \in DOMAIN e.values} |->
                  e.values[<<t, c>>]]] :
        c \in {c \in e.columns : c[2] = selected_sector}}

-----------------------------------------------------------------------------
(* The files enumerated *)

MkRow(date, sector, sub, seg, conta, net, total) ==
    [c \in RawColumns |->
        CASE c = "DT_NEGOCIO"  -> date
          [] c = "CD_SETOR"    -> sector
          [] c = "CD_SUBSETOR" -> sub
          [] c = "CD_SEGMENTO" -> seg
          [] c = "CONTA"       -> conta
          [] c = "VL_NET"      -> net
          [] c = "VL_TOTAL"    -> total]

Dates  == {1, 2}
Nets   == {-1000000, 2000000}
Totals == {3000000}

\* No statement of the code reads the position of a row (the filter keeps the
\* relative order; groupby and pivot_table order by key), so files are
\* enumerated up to the order of their rows: RowCode orders the rows.
RowCode(r) ==
    ((((r["DT_NEGOCIO"] * 20 + LabelRank(r["CD_SETOR"])) * 20
        + LabelRank(r["CD_SUBSETOR"])) * 20
        + LabelRank(r["CD_SEGMENTO"])) * 20
        + LabelRank(r["CONTA"])) * 20 + (r["VL_NET"] \div Million) + 10

TablesOf(rowset) ==
    UNION {{t \in [1..k -> rowset] :
              \A i \in 1..(k - 1) : RowCode(t[i]) <= RowCode(t[i + 1])} :
           k \in 0..MaxRows}

\* rows that differ in date, sector, investor type and amount
FlowRows ==
    {MkRow(d, s, "X", "X", c, n, t) :
        d \in Dates, s \in {"BANK", "FII"},
        c \in {"GENIAL", "LOCALS", "UNKNOWN_DESK"}, n \in Nets, t \in Totals}

FlowFiles == {[columns |-> RawColumns, rows |-> rs] : rs \in TablesOf(FlowRows)}

\* rows that differ in their labels, missing ones included
LabelRows ==
    {MkRow(1, l[1], l[2], l[3], c, 2000000, 3000000) :
        l \in {<<"BANK", "X", "X">>, <<"IBOV", NaN, "X">>, <<NaN, "X", NaN>>},
        c \in {"ESTRANGEIRO", "LOCAL INSTITUCIONAL", "GENIAL", "LOCALS",
               "FOREIGNERS", "RETAIL", "UNKNOWN_DESK", NaN}}

LabelFiles == {[columns |-> RawColumns, rows |-> rs] : rs \in TablesOf(LabelRows)}

\* files that lack one column, or none
SchemaRows ==
    {MkRow(1, "BANK", "X", "X", "GENIAL", 2000000, 3000000),
     MkRow(2, "FII", "X", "X", "LOCALS", -1000000, 3000000),
     MkRow(1, "BANK", "X", "X", "UNKNOWN_DESK", 2000000, 3000000),
     MkRow(2, "BANK", "X", "X", NaN, -1000000, 3000000)}

Schemas == {RawColumns} \cup {RawColumns \ {c} : c \in RawColumns}

SchemaFiles ==
    {[columns |-> cols,
      rows    |-> [i \in DOMAIN rs |-> [c \in cols |-> rs[i][c]]]] :
        cols \in Schemas, rs \in TablesOf(SchemaRows)}

Selectable == {"BANK", "Others"}

-----------------------------------------------------------------------------
(* Initial state: GenialDashboard.__init__ *)

InitObject ==
    /\ data = None
    /\ net_sector_summary = None
    /\ total_net_by_type = None
    /\ volume_total_by_type = None
    /\ daily_evolution = None
    /\ evol_sector = None
    /\ pc = "idle"
    /\ logged = "none"
    /\ returned = NoReturn
    /\ views_at_call = views

Init == file \in FlowFiles \cup {NoFile} /\ InitObject

InitLabels == file \in LabelFiles \cup {NoFile} /\ InitObject

InitSchemas == file \in SchemaFiles \cup {NoFile} /\ InitObject

-----------------------------------------------------------------------------
(* load_data *)

\* except Exception as e: logger.error(...); return False
Except(e) ==
    /\ logged' = e
    /\ returned' = [op |-> "load_data", val |-> ExceptReturn(e)]
    /\ pc' = "idle"

\* lines 24-36: find the newest file and read it
load_data ==
    /\ pc = "idle"
    /\ IF file = NoFile
       THEN Except("FileNotFoundError") /\ UNCHANGED <<data, views>>
       ELSE /\ data' = read_excel(file)
            /\ logged' = "Carregando arquivo"
            /\ returned' = NoReturn
            /\ pc' = "L37"
            /\ UNCHANGED views
    /\ views_at_call' = views
    /\ UNCHANGED file

\* line 37: self._clean_data()
_clean_data ==
    /\ pc = "L37"
    /\ LET res == CleanResult(data) IN
       /\ data' = res.data
       /\ IF res.exc = "none"
          THEN pc' = "L87" /\ returned' = NoReturn /\ UNCHANGED logged
          ELSE Except(res.exc)
    /\ UNCHANGED <<views_at_call, file, views>>

\* line 87
L87 ==
    /\ pc = "L87"
    /\ IF "NET R$" \in data.columns
       THEN /\ net_sector_summary' = GroupSectorNet(data)
            /\ pc' = "L88" /\ returned' = NoReturn /\ UNCHANGED logged
       ELSE Except("KeyError") /\ UNCHANGED net_sector_summary
    /\ UNCHANGED <<views_at_call, file, data, total_net_by_type,
                   volume_total_by_type, daily_evolution, evol_sector>>

\* line 88
L88 ==
    /\ pc = "L88"
    /\ net_sector_summary' = ScaleSummary(net_sector_summary)
    /\ pc' = "L91" /\ returned' = NoReturn
    /\ UNCHANGED <<views_at_call, file, data, total_net_by_type,
                   volume_total_by_type, daily_evolution, evol_sector,
                   logged>>

\* line 91
L91 ==
    /\ pc = "L91"
    /\ total_net_by_type' = GroupByType(data, "NET R$")
    /\ pc' = "L94" /\ returned' = NoReturn
    /\ UNCHANGED <<views_at_call, file, data, net_sector_summary,
                   volume_total_by_type, daily_evolution, evol_sector,
                   logged>>

\* line 94
L94 ==
    /\ pc = "L94"
    /\ IF "TOTAL" \in data.columns
       THEN /\ volume_total_by_type' = GroupByType(data, "TOTAL")
            /\ pc' = "L97" /\ returned' = NoReturn /\ UNCHANGED logged
       ELSE Except("KeyError") /\ UNCHANGED volume_total_by_type
    /\ UNCHANGED <<views_at_call, file, data, net_sector_summary,
                   total_net_by_type, daily_evolution, evol_sector>>

\* lines 97-102
L97 ==
    /\ pc = "L97"
    /\ daily_evolution' = PivotNet(data, <<"INV TYPE">>)
    /\ pc' = "L103" /\ returned' = NoReturn
    /\ UNCHANGED <<views_at_call, file, data, net_sector_summary,
                   total_net_by_type, volume_total_by_type, evol_sector,
                   logged>>

\* line 103
L103 ==
    /\ pc = "L103"
    /\ daily_evolution' = FillNaZero(daily_evolution)
    /\ pc' = "L104" /\ returned' = NoReturn
    /\ UNCHANGED <<views_at_call, file, data, net_sector_summary,
                   total_net_by_type, volume_total_by_type, evol_sector,
                   logged>>

\* line 104
L104 ==
    /\ pc = "L104"
    /\ daily_evolution' = ScalePivot(daily_evolution)
    /\ pc' = "L107" /\ returned' = NoReturn
    /\ UNCHANGED <<views_at_call, file, data, net_sector_summary,
                   total_net_by_type, volume_total_by_type, evol_sector,
                   logged>>

\* lines 107-112
L107 ==
    /\ pc = "L107"
    /\ evol_sector' = PivotNet(data, <<"INV TYPE", "SECTOR">>)
    /\ pc' = "L113" /\ returned' = NoReturn
    /\ UNCHANGED <<views_at_call, file, data, net_sector_summary,
                   total_net_by_type, volume_total_by_type, daily_evolution,
                   logged>>

\* line 113
L113 ==
    /\ pc = "L113"
    /\ evol_sector' = FillNaZero(evol_sector)
    /\ pc' = "L114" /\ returned' = NoReturn
    /\ UNCHANGED <<views_at_call, file, data, net_sector_summary,
                   total_net_by_type, volume_total_by_type, daily_evolution,
                   logged>>

\* line 114
L114 ==
    /\ pc = "L114"
    /\ evol_sector' = ScalePivot(evol_sector)
    /\ pc' = "L40" /\ returned' = NoReturn
    /\ UNCHANGED <<views_at_call, file, data, net_sector_summary,
                   total_net_by_type, volume_total_by_type, daily_evolution,
                   logged>>

\* lines 40-41
L40 ==
    /\ pc = "L40"
    /\ logged' = "Dados carregados e processados com sucesso!"
    /\ returned' = [op |-> "load_data", val |-> TRUE]
    /\ pc' = "idle"
    /\ UNCHANGED <<views_at_call, file, data, views>>

-----------------------------------------------------------------------------
(* Readers *)

\* get_top_bottom_sectors(inv_type, n)
get_top_bottom_sectors ==
    /\ pc = "idle"
    /\ \E inv_type \in valid_investors, n \in 1..MaxN :
         IF net_sector_summary = None
         THEN returned' = [op |-> "get_top_bottom_sectors", exc |-> "TypeError"]
         ELSE \E sorted \in SortValuesDescending(
                               FilterType(net_sector_summary, inv_type)) :
                returned' = [op       |-> "get_top_bottom_sectors",
                             exc      |-> "none",
                             inv_type |-> inv_type,
                             n        |-> n,
                             top_n    |-> head(sorted, n),
                             bottom_n |-> tail(sorted, n)]
    /\ UNCHANGED <<views_at_call, file, data, views, pc, logged>>

\* update_sector_chart(selected_sector), lines 264-289
update_sector_chart ==
    /\ \E selected_sector \in Selectable :
         IF evol_sector = None
         THEN returned' = [op |-> "update_sector_chart", exc |-> "AttributeError"]
         ELSE returned' = [op     |-> "update_sector_chart",
                          exc    |-> "none",
                          title  |-> selected_sector,
                          traces |-> SectorTraces(evol_sector, selected_sector)]
    /\ UNCHANGED <<views_at_call, file, data, views, pc, logged>>

\* _clean_data() called once more on the object whose load has completed
clean_again ==
    /\ pc = "idle"
    /\ returned = [op |-> "load_data", val |-> TRUE]
    /\ LET res == CleanResult(data) IN
       /\ data' = res.data
       /\ returned' = [op |-> "_clean_data", exc |-> res.exc, before |-> data]
    /\ UNCHANGED <<views_at_call, file, views, pc, logged>>

Next ==
    \/ load_data
    \/ _clean_data
    \/ L87 \/ L88 \/ L91 \/ L94 \/ L97 \/ L103 \/ L104 \/ L107 \/ L113 \/ L114
    \/ L40
    \/ get_top_bottom_sectors
    \/ update_sector_chart
    \/ clean_again

Spec == Init /\ [][Next]_vars

SpecLabels == InitLabels /\ [][Next]_vars

SpecSchemas == InitSchemas /\ [][Next]_vars

-----------------------------------------------------------------------------
(* Vocabulary of the properties *)

LoadReturned == returned.op = "load_data"
LoadSucceeded == LoadReturned /\ returned.val = TRUE
LoadFailed == LoadReturned /\ returned.val = FALSE

\* the raw categories the specification says are kept, with their
\* canonical equivalents
KeptCategories ==
    {"ESTRANGEIRO", "LOCAL INSTITUCIONAL", "GENIAL", "LOCALS", "FOREIGNERS",
     "RETAIL"}

CanonicalOf(c) ==
    CASE c \in {"ESTRANGEIRO", "FOREIGNERS"}     -> "FOREIGNERS"
      [] c \in {"LOCAL INSTITUCIONAL", "LOCALS"} -> "LOCALS"
      [] c \in {"GENIAL", "RETAIL"}              -> "RETAIL"

KeptRaw == SelectSeq(file.rows, LAMBDA r : r["CONTA"] \in KeptCategories)

CanonDates   == {r["index"] : r \in RowSet(data)}
CanonTypes   == {r["INV TYPE"] : r \in RowSet(data)}
CanonSectors == {<<r["INV TYPE"], r["SECTOR"]>> : r \in RowSet(data)}

\* sum of NET R$ over the canonical rows of date t and investor type c
NetOn(t, c) ==
    SumCol(SelectSeq(data.rows,
             LAMBDA r : r["index"] = t /\ r["INV TYPE"] = c), "NET R$")

\* sum of NET R$ over the canonical rows of date t, investor type and sector cs
NetOnSector(t, cs) ==
    SumCol(SelectSeq(data.rows,
             LAMBDA r : r["index"] = t /\ r["INV TYPE"] = cs[1]
                        /\ r["SECTOR"] = cs[2]), "NET R$")

Traded(t, c) == \E r \in RowSet(data) : r["index"] = t /\ r["INV TYPE"] = c
TradedSector(t, cs) ==
    \E r \in RowSet(data) :
        r["index"] = t /\ r["INV TYPE"] = cs[1] /\ r["SECTOR"] = cs[2]

RECURSIVE SumNet(_)
SumNet(rows) == IF rows = << >> THEN 0 ELSE Head(rows).net + SumNet(Tail(rows))

AllNone == \A i \in DOMAIN views : views[i] = None

EmptyPivot(p) == p # None /\ p.index = {} /\ p.columns = {} /\ DOMAIN p.values = {}
EmptySeries(v) == v # None /\ v.index = {} /\ DOMAIN v.values = {}

AllEmpty ==
    /\ net_sector_summary # None /\ net_sector_summary.rows = << >>
    /\ EmptySeries(total_net_by_type)
    /\ EmptySeries(volume_total_by_type)
    /\ EmptyPivot(daily_evolution)
    /\ EmptyPivot(evol_sector)

\* the five views of one completed pass over the canonical table of the file
Canonical == CleanResult(read_excel(file)).data

Snapshot ==
    <<ScaleSummary(GroupSectorNet(Canonical)),
      GroupByType(Canonical, "NET R$"),
      GroupByType(Canonical, "TOTAL"),
      ScalePivot(FillNaZero(PivotNet(Canonical, <<"INV TYPE">>))),
      ScalePivot(FillNaZero(PivotNet(Canonical, <<"INV TYPE", "SECTOR">>)))>>

SnapshotInstalled == AllNone \/ views = Snapshot

-----------------------------------------------------------------------------
(* C1 *)

\* C1: after _clean_data every remaining row has INV TYPE among LOCALS,
\* FOREIGNERS, RETAIL and no NaN in SECTOR, SUB-SECTOR, SEGMENT, INV TYPE; the
\* rows kept are exactly the raw rows whose category is one of the six kept
\* categories (in their order, under the canonical name); and once the views
\* are built no dropped row shows in them: their categories are canonical and
\* the net totals add up to the kept raw rows alone.
C1_CleanKeepsExactlyValid ==
    /\ pc = "L87" =>
        /\ \A r \in RowSet(data) :
            /\ r["INV TYPE"] \in {"LOCALS", "FOREIGNERS", "RETAIL"}
            /\ \A c \in {"SECTOR", "SUB-SECTOR", "SEGMENT", "INV TYPE"} :
                  r[c] # NaN
        /\ Len(data.rows) = Len(KeptRaw)
        /\ \A i \in DOMAIN data.rows :
            /\ data.rows[i]["INV TYPE"] = CanonicalOf(KeptRaw[i]["CONTA"])
            /\ data.rows[i]["index"] = KeptRaw[i]["DT_NEGOCIO"]
            /\ data.rows[i]["NET R$"] = KeptRaw[i]["VL_NET"]
    /\ pc = "L40" =>
        /\ total_net_by_type.index = {CanonicalOf(r["CONTA"]) : r \in RowSet([rows |-> KeptRaw])}
        /\ volume_total_by_type.index = total_net_by_type.index
        /\ daily_evolution.columns = total_net_by_type.index
        /\ {c[1] : c \in evol_sector.columns} = total_net_by_type.index
        /\ {net_sector_summary.rows[i].inv : i \in DOMAIN net_sector_summary.rows}
              = total_net_by_type.index
        /\ \A c \in total_net_by_type.index :
              total_net_by_type.values[c] * Million =
                SumCol(SelectSeq(KeptRaw,
                         LAMBDA r : CanonicalOf(r["CONTA"]) = c), "VL_NET")

\* a cleaned table that kept a row and dropped one whose category is missing
C1_Witness ==
    /\ pc = "L87"
    /\ Len(data.rows) > 0
    /\ \E i \in DOMAIN file.rows : file.rows[i]["CONTA"] = NaN
    /\ \E i \in DOMAIN file.rows : file.rows[i]["CONTA"] = "LOCAL INSTITUCIONAL"

-----------------------------------------------------------------------------
(* C2 *)

\* C2: a load_data call that returns False leaves the five views exactly as
\* they were when it was called.
C2_FailedLoadLeavesViews == LoadFailed => views = views_at_call

-----------------------------------------------------------------------------
(* C3 *)

\* C3: after _process_data, daily_evolution has a cell for every observed
\* (date, category) pair of the canonical table and evol_sector one for every
\* observed date and observed (category, sector) pair; a cell without a
\* canonical row is 0, every other cell is the sum of NET R$ of its rows
\* divided by 1,000,000.
C3_DenseFill ==
    pc = "L40" =>
        /\ daily_evolution.index = CanonDates
        /\ daily_evolution.columns = CanonTypes
        /\ DOMAIN daily_evolution.values = CanonDates \X CanonTypes
        /\ \A t \in CanonDates, c \in CanonTypes :
              IF Traded(t, c)
              THEN daily_evolution.values[<<t, c>>] * Million = NetOn(t, c)
              ELSE daily_evolution.values[<<t, c>>] = 0
        /\ evol_sector.index = CanonDates
        /\ evol_sector.columns = CanonSectors
        /\ DOMAIN evol_sector.values = CanonDates \X CanonSectors
        /\ \A t \in CanonDates, cs \in CanonSectors :
              IF TradedSector(t, cs)
              THEN evol_sector.values[<<t, cs>>] * Million = NetOnSector(t, cs)
              ELSE evol_sector.values[<<t, cs>>] = 0

\* two dates and two categories, each traded on one date only
C3_Witness ==
    /\ pc = "L40"
    /\ Cardinality(CanonDates) = 2
    /\ Cardinality(CanonTypes) = 2
    /\ \E t \in CanonDates, c \in CanonTypes : ~Traded(t, c)
    /\ \E t \in CanonDates, cs \in CanonSectors :
          TradedSector(t, cs) /\ NetOnSector(t, cs) # 0

-----------------------------------------------------------------------------
(* C4 *)

\* C4: after _process_data the entries of net_sector_summary of each category
\* present add up to that category's entry of total_net_by_type, and
\* total_net_by_type has one entry per category present and no other.
C4_SumConsistency ==
    pc = "L40" =>
        /\ total_net_by_type.index = CanonTypes
        /\ DOMAIN total_net_by_type.values = CanonTypes
        /\ \A c \in CanonTypes :
              SumNet(FilterType(net_sector_summary, c))
                = total_net_by_type.values[c]

\* a category with two sectors and a non-zero total
C4_Witness ==
    /\ pc = "L40"
    /\ \E c \in CanonTypes :
          /\ Len(FilterType(net_sector_summary, c)) = 2
          /\ total_net_by_type.values[c] # 0

-----------------------------------------------------------------------------
(* C5 *)

IsDescendingSortOf(s, entries) ==
    /\ Len(s) = Len(entries)
    /\ {s[i] : i \in DOMAIN s} = {entries[i] : i \in DOMAIN entries}
    /\ \A i \in 1..(Len(s) - 1) : s[i].net >= s[i + 1].net

\* C5: get_top_bottom_sectors(c, n), n > 0, on a category with k sectors
\* returns the first min(n, k) and the last min(n, k) entries of one
\* descending sort of the category's entries, each in that order; all k
\* when k < n; two empty lists when k = 0; it does not raise.
C5_TopBottom ==
    (returned.op = "get_top_bottom_sectors" /\ net_sector_summary # None) =>
        /\ returned.exc = "none"
        /\ LET entries == FilterType(net_sector_summary, returned.inv_type)
               k == Len(entries)
               m == Min(returned.n, k)
           IN  /\ Len(returned.top_n) = m
               /\ Len(returned.bottom_n) = m
               /\ \E s \in [1..k -> {entries[i] : i \in 1..k}] :
                     /\ IsDescendingSortOf(s, entries)
                     /\ returned.top_n = [i \in 1..m |-> s[i]]
                     /\ returned.bottom_n = [i \in 1..m |-> s[k - m + i]]
               /\ (k < returned.n =>
                     {returned.top_n[i] : i \in 1..m}
                        = {entries[i] : i \in 1..k})
               /\ (k = 0 => returned.top_n = << >> /\ returned.bottom_n = << >>)

\* more sectors than asked for, with different amounts
C5_Witness ==
    /\ returned.op = "get_top_bottom_sectors"
    /\ returned.exc = "none"
    /\ Len(FilterType(net_sector_summary, returned.inv_type)) > returned.n
    /\ returned.top_n # returned.bottom_n

-----------------------------------------------------------------------------
(* C6 *)

\* C6: _clean_data run again on the table a first _clean_data produced
\* completes and leaves the table as it was.
C6_CleanIdempotent ==
    returned.op = "_clean_data" =>
        (returned.exc = "none" /\ data = returned.before)

-----------------------------------------------------------------------------
(* C7 *)

\* C7: when a file with all required columns has no row of a kept category,
\* load_data returns True and all five views are empty.
C7_EmptyAfterFilter ==
    (/\ LoadReturned
     /\ file # NoFile
     /\ file.columns = RawColumns
     /\ \A i \in DOMAIN file.rows : file.rows[i]["CONTA"] \notin KeptCategories)
    => (returned.val = TRUE /\ AllEmpty)

\* a load of a file with rows, all of them dropped
C7_Witness ==
    /\ LoadSucceeded
    /\ Len(file.rows) > 0
    /\ \A i \in DOMAIN file.rows : file.rows[i]["CONTA"] \notin KeptCategories
    /\ \E i \in DOMAIN file.rows : file.rows[i]["CONTA"] = NaN

-----------------------------------------------------------------------------
(* C8 *)

\* C8: a reader that runs while load_data is in progress finds the five views
\* to be one snapshot: all unset, or all of them the finished views of one
\* load.
C8_ReaderSeesSnapshot ==
    (returned.op = "update_sector_chart" /\ returned.exc = "none")
        => SnapshotInstalled

-----------------------------------------------------------------------------
(* C9 *)

\* C9: what load_data returns when no file is found differs from what it
\* returns for a load that succeeded and from what it returns for any other
\* failure.
C9_InputAbsentDistinct ==
    (LoadReturned /\ logged # "FileNotFoundError") =>
        returned.val # ExceptReturn("FileNotFoundError")

-----------------------------------------------------------------------------
(* C10 *)

TiesLexicographic(s) ==
    \A i \in 1..(Len(s) - 1) :
        s[i].net = s[i + 1].net =>
            LabelRank(s[i].sector) < LabelRank(s[i + 1].sector)

\* C10: sectors of equal net amount come in lexicographic order of their
\* label in the lists get_top_bottom_sectors returns.
C10_TiesByLabel ==
    (returned.op = "get_top_bottom_sectors" /\ returned.exc = "none") =>
        (TiesLexicographic(returned.top_n) /\ TiesLexicographic(returned.bottom_n))

====
